---- MODULE Spec2Model ----
(***************************************************************************)
(* A model of the apophenia library: the Permutation generator             *)
(* (permute.go), the Zipf sampler (zipf.go), the Uint128 helper            *)
(* (int128.go) and the Shuffle of the cards example.                       *)
(*                                                                         *)
(* Machine words are WordBits wide instead of 64, so that the whole word   *)
(* range (wrap-around, sign change, the largest value) is enumerated.  A   *)
(* Uint128 is a pair of words, a block of BlockBits = 2 * WordBits bits.   *)
(* A Go pointer or interface value is a sequence of length at most one:    *)
(* << >> is nil and <<v>> refers to v.                                     *)
(* A float64 is NaN or an exact rational, and the keystream of a Sequence  *)
(* is a fixed function of its seed and of the offset.                      *)
(***************************************************************************)
EXTENDS Integers, Sequences, FiniteSets, TLC

VARIABLES
    pargs,  \* the arguments of NewPermutation (a sequence of length <= 1)
    perm,   \* the outcome of NewPermutation and the Permutation it returned
    plast,  \* the last call made on the Permutation
    outs,   \* what Next() returned so far, while only Next() was called
    fresh,  \* whether the Permutation was advanced by Next() only
    zargs,  \* the arguments of NewZipf
    zipf,   \* the outcome of NewZipf and the Zipf it returned
    zlast,  \* the last call made on the Zipf
    uargs,  \* the operands of a Uint128 operation
    ures,   \* its result, once computed
    sargs,  \* the arguments of NewShuffle
    shuf,   \* the outcome of NewShuffle and the Shuffle it returned
    slast,  \* the last Deal call
    cards   \* the cards dealt so far, in order

pvars == <<pargs, perm, plast, outs, fresh>>
zvars == <<zargs, zipf, zlast>>
uvars == <<uargs, ures>>
svars == <<sargs, shuf, slast, cards>>
vars ==
    <<pargs, perm, plast, outs, fresh, zargs, zipf, zlast, uargs, ures,
      sargs, shuf, slast, cards>>

----------------------------------------------------------------------------
(* Bounds of the model *)

\* width of a machine word (uint64, int64 in the source)
WordBits == 4
\* number of distinct AES sequences (NewSequence seeds) explored
NumSeeds == 2
\* number of permutation / zipf seeds (uint32 in the source) explored
NumPermSeeds == 1
\* largest period (max) explored besides the largest signed word
MaxPeriod == 4
\* width of the iteration field of an offset's high word (24 in the layout)
IterationBits == 6
\* width of the sequence-tag field of an offset's high word (8 in the layout)
TagBits == 4

\* the number of cards of a deck (52 in the example program)
DeckSize == 3
\* the largest number of decks of a Shuffle (1000 in the example program)
DeckLimit == 2

----------------------------------------------------------------------------
(* Words *)

Pow2(n) == 2 ^ n

WordMod == Pow2(WordBits)
BlockBits == 2 * WordBits
MaxUint64 == WordMod - 1
MaxInt64 == Pow2(WordBits - 1) - 1
MinInt64 == 0 - Pow2(WordBits - 1)

\* conversion to (and wrap-around of) an unsigned word
Uint64(x) == x % WordMod
\* conversion to (and wrap-around of) a signed word
Int64(x) == LET m == x % WordMod IN IF m > MaxInt64 THEN m - WordMod ELSE m

\* Go's % on signed operands truncates towards zero: the result has the
\* sign of the dividend
Rem(n, m) == IF n >= 0 THEN n % m ELSE 0 - ((0 - n) % m)

\* the number of bits needed to represent x
Len64(x) == CHOOSE n \in 0 .. WordBits : x < Pow2(n) /\ (n = 0 \/ Pow2(n - 1) <= x)

LeadingZeros64(x) == WordBits - Len64(x)

nil == << >>

----------------------------------------------------------------------------
(* Uint128 *)

Uint128(lo, hi) == [Lo |-> lo, Hi |-> hi]

\* Bit returns 1 if the nth bit is set, 0 otherwise.
Bit(u, n) ==
    IF n >= BlockBits THEN 0
    ELSE IF n >= WordBits THEN (u.Hi \div Pow2(n % WordBits)) % 2
    ELSE (u.Lo \div Pow2(n)) % 2

\* x & y and x | y on words
And64(x, y) ==
    LET acc[i \in 0 .. WordBits] ==
            IF i = 0 THEN 0
            ELSE acc[i - 1] + Pow2(i - 1) * (((x \div Pow2(i - 1)) % 2)
                                             * ((y \div Pow2(i - 1)) % 2))
    IN  acc[WordBits]
Or64(x, y) == x + y - And64(x, y)

Shl64Wrapped(x, s) == (x * Pow2(s % WordBits)) % WordMod
\* x << s and x >> s on words: a count of the word size or more gives 0
Shl64(x, s) == IF s >= WordBits THEN 0 ELSE (x * Pow2(s)) % WordMod
Shr64(x, s) == IF s >= WordBits THEN 0 ELSE x \div Pow2(s)

\* n & 64 # 0 and n & 63: the word bit and the in-word part of a bit count
WordBit(n) == (n \div WordBits) % 2 # 0
InWord(n) == n % WordBits

\* Mask produces a mask of the lower n bits of u.
Mask(u, n) ==
    IF n >= BlockBits THEN u
    ELSE IF n >= WordBits
         THEN [u EXCEPT !.Hi = And64(@, Shl64(1, InWord(n)) - 1)]
         ELSE [u EXCEPT !.Lo = And64(@, Shl64(1, n) - 1)]

\* RotateRight rotates u right by n bits.
RotateRight(u, n) ==
    LET s == IF WordBit(n) THEN Uint128(u.Hi, u.Lo) ELSE u
        m == InWord(n)
        unbits == WordBits - m
    IN  IF m = 0 THEN s
        ELSE Uint128(Or64(Shr64(s.Lo, m), Shl64(s.Hi, unbits)),
                     Or64(Shr64(s.Hi, m), Shl64(s.Lo, unbits)))

\* RotateLeft rotates u left by n bits.
RotateLeft(u, n) ==
    LET s == IF WordBit(n) THEN Uint128(u.Hi, u.Lo) ELSE u
        m == InWord(n)
        unbits == WordBits - m
    IN  IF m = 0 THEN s
        ELSE Uint128(Or64(Shl64(s.Lo, m), Shr64(s.Hi, unbits)),
                     Or64(Shl64(s.Hi, m), Shr64(s.Lo, unbits)))

\* ShiftRight shifts u right by n bits.
ShiftRight(u, n) ==
    IF n > BlockBits - 1 THEN Uint128(0, 0)
    ELSE IF n >= WordBits THEN Uint128(Shr64(u.Hi, InWord(n)), 0)
    ELSE LET unbits == WordBits - n
         IN  Uint128(Or64(Shr64(u.Lo, n), Shl64(u.Hi, unbits)), Shr64(u.Hi, n))

\* ShiftLeft shifts u left by n bits.
ShiftLeft(u, n) ==
    IF n > BlockBits - 1 THEN Uint128(0, 0)
    ELSE IF n >= WordBits THEN Uint128(0, Shl64(u.Lo, InWord(n)))
    ELSE LET m == InWord(n)
             unbits == WordBits - m
         IN  IF m = 0 THEN u
             ELSE Uint128(Shl64(u.Lo, m),
                          Or64(Shl64(u.Hi, m), Shr64(u.Lo, unbits)))

----------------------------------------------------------------------------
(* Sequence and offsets *)

SequencePermutationK == 1
SequencePermutationF == 2
SequenceZipfU == 5

\* High word: iteration in the low bits, then the sequence tag, then the
\* seed.  Low word: the id.
OffsetFor(seq, seed, iter, id) ==
    Uint128(id, (seed * Pow2(TagBits) + seq) * Pow2(IterationBits) + iter)

\* The keystream: a fixed pseudo-random function of the sequence's seed and
\* the offset (AES-128 in the library).
BitsAt(src, offset) ==
    LET a == (src[1] + 1) * 1009 + offset.Hi * 131 + offset.Lo * 37
        r == ((a % 32749) * ((a % 32719) + 7)) % 32693
    IN  Uint128(r % WordMod, (r \div WordMod) % WordMod)

NewSequence(seed) == <<seed>>

----------------------------------------------------------------------------
(* Permutation *)

RoundsPerBit == 6

InvalidPeriodOrOne(max) == max <= 1
InvalidPeriod(max) == max < 1

\* the rejection loop of NewPermutation: skip blocks whose low word is not
\* below maxMultiple, by incrementing the offset's high word
RECURSIVE Resample(_, _, _)
Resample(src, offset, maxMultiple) ==
    IF BitsAt(src, offset).Lo >= maxMultiple
    THEN Resample(src, [offset EXCEPT !.Hi = @ + 1], maxMultiple)
    ELSE offset

MaxMultipleExact(max) == (WordMod \div Uint64(max)) * Uint64(max)
\* the largest multiple of max that is at most the largest uint64
MaxMultiple(max) == (MaxUint64 \div Uint64(max)) * Uint64(max)

RoundKey(src, seed, max, i) ==
    LET offset == Resample(src, OffsetFor(SequencePermutationK, seed, 0, i),
                           MaxMultiple(max))
    IN  BitsAt(src, offset).Lo % Uint64(max)

\* the least n with x <= 2^n
CeilLog2(x) ==
    CHOOSE n \in 0 .. WordBits : x <= Pow2(n) /\ (n = 0 \/ Pow2(n - 1) < x)

RoundCountCeil(max) == RoundsPerBit * CeilLog2(max)
\* the number of rounds: 6 for every bit of max
RoundCount(max) == RoundsPerBit * (WordBits - LeadingZeros64(Uint64(max)))

\* NewPermutation returns (p, err); panic marks a nil-interface method call.
NewPermutation(max, seed, src) ==
    IF InvalidPeriod(max)
    THEN [p |-> nil, err |-> "period must be positive", panic |-> FALSE]
    ELSE LET rounds == RoundCount(max)
         IN  IF rounds > 0 /\ src = nil
             THEN [p |-> nil, err |-> "", panic |-> TRUE]
             ELSE [p |-> << [src |-> src, permSeed |-> seed, max |-> max,
                             counter |-> 0, rounds |-> rounds,
                             bits |-> Uint128(0, 0),
                             k |-> [i \in 0 .. rounds - 1 |->
                                        RoundKey(src, seed, max, i)]] >>,
                   err |-> "", panic |-> FALSE]

CaretOwn(x, xPrime) == x
\* the canonical member of the pair {x, xPrime}: the larger one
Caret(x, xPrime) == IF xPrime > x THEN xPrime ELSE x

\* the local variables of nextValue's loop
LoopStates ==
    [i : Nat, x : Nat, prev : Nat,
     offset : [Lo : Nat, Hi : Nat], bits : [Lo : Nat, Hi : Nat]]

\* one iteration of the loop of nextValue: round st.i
Round(p, st) ==
    LET i == st.i
        x == st.x
        boundary == i > 0 /\ i % BlockBits = 0
        offset1 == IF boundary THEN [st.offset EXCEPT !.Hi = @ + 1] ELSE st.offset
        prev1 == IF boundary THEN Uint64(Uint64(p.max) + 1) ELSE st.prev
        xPrime == Uint64(p.k[i] + Uint64(p.max) - x) % Uint64(p.max)
        xCaret == Caret(x, xPrime)
        regen == xCaret # prev1
        offset2 == IF regen THEN [offset1 EXCEPT !.Lo = xCaret] ELSE offset1
        bits1 == IF regen THEN BitsAt(p.src, offset2) ELSE st.bits
    IN  [i |-> i + 1,
         x |-> IF Bit(bits1, i) # 0 THEN xPrime ELSE x,
         prev |-> IF regen THEN xCaret ELSE prev1,
         offset |-> offset2,
         bits |-> bits1]

\* the loop of nextValue, run from the loop state st0 to its end
Rounds(p, st0) ==
    LET loop[a \in [st : LoopStates, n : Nat]] ==
            IF a.n = 0 THEN a.st
            ELSE IF a.n = 1 THEN Round(p, a.st)
            ELSE loop[[st |-> loop[[st |-> a.st, n |-> a.n \div 2]],
                       n |-> a.n - (a.n \div 2)]]
    IN  loop[[st |-> st0, n |-> p.rounds - st0.i]]

\* the loop state nextValue starts from at input x: prev is a value that
\* cannot be an xCaret, so the first round always fetches a block
LoopStart(p, x) ==
    [i |-> 0, x |-> x, prev |-> Uint64(Uint64(p.max) + 1),
     offset |-> OffsetFor(SequencePermutationF, p.permSeed, 0, 0),
     bits |-> p.bits]

CounterStuck(c) == c
CounterAfter(c) == Int64(c + 1)

ReduceNone(c, max) == c
\* the counter brought back into [0, max)
Reduce(c, max) == Int64(Uint64(c) % Uint64(max))

nextValue(p) ==
    LET counter == Reduce(p.counter, p.max)
        x == Uint64(counter)
        r == Rounds(p, LoopStart(p, x))
    IN  [p |-> [p EXCEPT !.counter = CounterAfter(counter), !.bits = r.bits],
         ret |-> Int64(r.x)]

\* Next generates the next value from the permutation.
PNext(p) == nextValue(p)

SeekIndexRaw(n, max) == IF n < 0 THEN Int64(max + n) ELSE n
\* Negative offsets count from the end.
SeekIndex(n, max) == IF n < 0 THEN Int64(max + Rem(n, max)) ELSE n

PNthFromHere(p, n) ==
    nextValue([p EXCEPT !.counter = Int64(p.counter + SeekIndex(n, p.max))])
\* Nth generates the Nth value from the permutation.
PNth(p, n) == nextValue([p EXCEPT !.counter = SeekIndex(n, p.max)])

----------------------------------------------------------------------------
(* float64 *)

(* A float64 is NaN or an exact rational n / d with d > 0 in lowest terms:  *)
(* rounding is not modelled.  math.Exp(e * math.Log(b)) is the power b ^ e, *)
(* which is rational for the integer exponents that q = 2 produces          *)
(* (1 - q = 1 / (1 - q) = -1, -q = -2).                                     *)

RECURSIVE GCD(_, _)
GCD(a, b) == IF b = 0 THEN a ELSE GCD(b, a % b)

Abs(a) == IF a < 0 THEN 0 - a ELSE a

NaN == [nan |-> TRUE, n |-> 0, d |-> 1]

Float(n, d) ==
    LET g == GCD(Abs(n), Abs(d))
        sg == IF d < 0 THEN 0 - 1 ELSE 1
    IN  [nan |-> FALSE, n |-> sg * (n \div g), d |-> sg * (d \div g)]

Float64(i) == Float(i, 1)

IsNaN(a) == a.nan

\* an operation on NaN yields NaN
FAdd(a, b) ==
    IF a.nan \/ b.nan THEN NaN ELSE Float(a.n * b.d + b.n * a.d, a.d * b.d)
FSub(a, b) ==
    IF a.nan \/ b.nan THEN NaN ELSE Float(a.n * b.d - b.n * a.d, a.d * b.d)
FMul(a, b) ==
    IF a.nan \/ b.nan THEN NaN ELSE Float(a.n * b.n, a.d * b.d)
FDiv(a, b) ==
    IF a.nan \/ b.nan THEN NaN ELSE Float(a.n * b.d, a.d * b.n)
FNeg(a) == IF a.nan THEN NaN ELSE Float(0 - a.n, a.d)

\* a comparison with NaN is false
FLe(a, b) ==
    IF a.nan \/ b.nan THEN FALSE
    ELSE LET g == GCD(a.d, b.d)
         IN  a.n * (b.d \div g) <= b.n * (a.d \div g)
FLt(a, b) ==
    IF a.nan \/ b.nan THEN FALSE
    ELSE LET g == GCD(a.d, b.d)
         IN  a.n * (b.d \div g) < b.n * (a.d \div g)

\* math.Floor, as an integer
Floor(a) == a.n \div a.d

\* math.Exp(e * math.Log(b)) for b > 0 and an integer e
ExpLog(e, b) ==
    IF e.nan \/ b.nan THEN NaN
    ELSE LET k == Abs(Floor(e))
             pw == Float(b.n ^ k, b.d ^ k)
         IN  IF e.n >= 0 THEN pw ELSE Float(pw.d, pw.n)

Half == Float(1, 2)

----------------------------------------------------------------------------
(* Zipf *)

h(z, x) == FMul(ExpLog(z.oneMinusQ, FAdd(z.v, x)), z.oneOverOneMinusQ)

hInv(z, x) == FAdd(FNeg(z.v), ExpLog(z.oneOverOneMinusQ, FMul(z.oneMinusQ, x)))

ErrNaN == "q and v must not be NaN for Zipf distribution"
ErrRange == "need q > 1 and v >= 1 for Zipf distribution"
ErrSequence == "need a usable PRNG apophenia.Sequence"

InvalidShape(q, v) == FLe(q, Float64(1)) \/ FLt(v, Float64(1))

\* NewZipf returns (z, err).
NewZipf(q, v, max, seed, src) ==
    IF IsNaN(q) \/ IsNaN(v) THEN [z |-> nil, err |-> ErrNaN]
    ELSE IF InvalidShape(q, v) THEN [z |-> nil, err |-> ErrRange]
    ELSE IF src = nil THEN [z |-> nil, err |-> ErrSequence]
    ELSE LET oneMinusQ == FSub(Float64(1), q)
             oneOverOneMinusQ == FDiv(Float64(1), FSub(Float64(1), q))
             z0 == [q |-> q, v |-> v, max |-> Float64(max), seed |-> seed,
                    oneMinusQ |-> oneMinusQ,
                    oneOverOneMinusQ |-> oneOverOneMinusQ, idx |-> 0]
             hX0 == FSub(h(z0, Half), ExpLog(FNeg(q), v))
             hImaxOneHalf == h(z0, FAdd(z0.max, Half))
             s == FSub(Float64(1),
                       hInv(z0, FSub(h(z0, FAdd(Float64(1), Half)),
                                     ExpLog(FNeg(q), FAdd(v, Float64(1))))))
         IN  [z |-> << [src |-> src, seed |-> seed, q |-> q, v |-> v,
                        max |-> z0.max, oneMinusQ |-> oneMinusQ,
                        oneOverOneMinusQ |-> oneOverOneMinusQ,
                        hImaxOneHalf |-> hImaxOneHalf,
                        hX0MinusHImaxOneHalf |-> FSub(hX0, hImaxOneHalf),
                        s |-> s, idx |-> 0] >>,
              err |-> ""]

\* the width of the uniform draw (53 of the 64 bits of the low word)
UniformBits == WordBits - 1

\* one pass of the loop of Nth, on the block at offset
Draw(z, offset) ==
    LET uInt == BitsAt(z.src, offset).Lo
        u0 == Float(uInt % Pow2(UniformBits), Pow2(UniformBits))
        u == FAdd(z.hImaxOneHalf, FMul(u0, z.hX0MinusHImaxOneHalf))
        x == hInv(z, u)
        k == Float64(Floor(FAdd(x, Half)))
    IN  [k |-> Uint64(Floor(k)),
         accept |-> \/ FLe(FSub(k, x), z.s)
                    \/ FLe(FSub(h(z, FAdd(k, Half)),
                                ExpLog(FNeg(z.q), FAdd(z.v, k))), u)]

\* Nth returns the Nth value from the sequence associated with the Zipf.
ZNth(z, index) ==
    LET loop[offset \in [Lo : Nat, Hi : Nat]] ==
            LET d == Draw(z, offset)
            IN  IF d.accept THEN d.k
                ELSE loop[[offset EXCEPT !.Hi = @ + 1]]
    IN  [z |-> [z EXCEPT !.idx = index],
         ret |-> loop[OffsetFor(SequenceZipfU, z.seed, 0, index)]]

ZNextSame(z) == ZNth(z, z.idx)
\* Next returns the value after the last one requested.
ZNext(z) == ZNth(z, Uint64(z.idx + 1))

----------------------------------------------------------------------------
(* Uint128.Sub *)

\* Sub subtracts value from its receiver in place; a word wraps on underflow.
Sub(u, value) ==
    LET lo == Uint64(u.Lo - value.Lo)
        hi == IF lo > value.Lo THEN Uint64(u.Hi - 1) ELSE u.Hi
    IN  Uint128(lo, Uint64(hi - value.Hi))

----------------------------------------------------------------------------
(* The cards example: Shuffle *)

\* the width of a Card (uint16), narrower than an int64
CardBits == WordBits - 1

\* the conversion Card(value)
Card(value) == value % Pow2(CardBits)

ErrDecks == "number of decks must be positive, but under 1000"
ErrDeal == "can't deal"
ErrCard == "invalid card value"

\* NewShuffle yields a shuffle of one or more decks of cards.
NewShuffle(decks, seed) ==
    IF decks <= 0 \/ decks > DeckLimit THEN [s |-> nil, err |-> ErrDecks]
    ELSE LET r == NewPermutation(DeckSize, 0, NewSequence(seed))
         IN  IF r.err # "" THEN [s |-> nil, err |-> r.err]
             ELSE [s |-> << [dealt |-> 0, max |-> decks * DeckSize,
                             shuffle |-> r.p[1]] >>,
                   err |-> ""]

\* Deal yields up to n cards from the shuffle, but stops when it runs out
\* of cards.
Deal(s, n) ==
    LET over == n + s.dealt > s.max
        count == IF over THEN s.max - s.dealt ELSE n
        \* the loop over i; of the Permutation, Next() changes the counter
        \* and the cached block
        loop[a \in [i : Nat, counter : Int, bits : [Lo : Nat, Hi : Nat],
                    c : Seq(Nat), err : STRING]] ==
            IF a.i >= count THEN a
            ELSE LET r == PNext([s.shuffle EXCEPT !.counter = a.counter,
                                                   !.bits = a.bits])
                 IN  loop[[i |-> a.i + 1, counter |-> r.p.counter,
                           bits |-> r.p.bits,
                           c |-> Append(a.c, Card(r.ret)),
                           err |-> IF Card(r.ret) # r.ret THEN ErrCard
                                   ELSE a.err]]
        done == loop[[i |-> 0, counter |-> s.shuffle.counter,
                      bits |-> s.shuffle.bits, c |-> << >>,
                      err |-> IF over THEN ErrDeal ELSE ""]]
    IN  [s |-> [s EXCEPT !.dealt = @ + count,
                         !.shuffle.counter = done.counter,
                         !.shuffle.bits = done.bits],
         c |-> done.c, err |-> done.err]

----------------------------------------------------------------------------
(* The program: one object is constructed from the arguments chosen by     *)
(* Init, then operated.  A run works on a Permutation, on a Zipf or on a   *)
(* pair of Uint128 values; the variables of the other two stay idle.       *)

Sequences == {nil} \cup {NewSequence(s) : s \in 0 .. NumSeeds - 1}

Seeds == 0 .. NumPermSeeds - 1

\* the periods tried: invalid ones, small ones, and the largest int64
Periods == (-1 .. MaxPeriod) \cup {MaxInt64}

\* the q and v tried: NaN, values outside the domain, values inside
Shapes == {NaN, Float64(1), Float64(2)}
Shifts == {NaN, Half, Float64(1), Float64(2)}

\* the max tried for a Zipf: zero, small ones, and the largest uint64
ZipfPeriods == (0 .. MaxPeriod) \cup {MaxUint64}

\* the indexes sought in a Zipf: small ones and the two largest
Indexes == (0 .. MaxPeriod) \cup {MaxUint64 - 1, MaxUint64}

\* the high words tried for a Uint128 operand
HiWords == {0, 1, MaxUint64}

noOp == [op |-> "none", n |-> 0, ret |-> 0, from |-> 0, after |-> << >>]

noObject == [status |-> "none", err |-> "", p |-> nil]

IdlePerm ==
    /\ pargs = << >>
    /\ perm = noObject
    /\ plast = noOp
    /\ outs = << >>
    /\ fresh = FALSE

IdleZipf ==
    /\ zargs = << >>
    /\ zipf = noObject
    /\ zlast = noOp

IdleU128 ==
    /\ uargs = << >>
    /\ ures = << >>

IdleShuffle ==
    /\ sargs = << >>
    /\ shuf = noObject
    /\ slast = noOp
    /\ cards = << >>

InitPerm ==
    /\ pargs \in {<<[max |-> m, seed |-> s, src |-> q]>> :
                    m \in Periods, s \in Seeds, q \in Sequences}
    /\ perm = noObject
    /\ plast = noOp
    /\ outs = << >>
    /\ fresh = FALSE
    /\ IdleZipf /\ IdleU128 /\ IdleShuffle

InitZipf ==
    /\ zargs \in {<<[q |-> q, v |-> v, max |-> m, seed |-> s, src |-> sq]>> :
                    q \in Shapes, v \in Shifts, m \in ZipfPeriods,
                    s \in Seeds, sq \in Sequences}
    /\ zipf = noObject
    /\ zlast = noOp
    /\ IdlePerm /\ IdleU128 /\ IdleShuffle

\* the operations on one Uint128 and a bit count
BitOps == {"Mask", "RotateRight", "RotateLeft", "ShiftRight", "ShiftLeft"}

InitU128 ==
    /\ uargs \in
         {<<[op |-> "Sub", u |-> Uint128(ul, uh), v |-> Uint128(vl, vh),
             n |-> 0]>> :
                ul \in 0 .. MaxUint64, uh \in HiWords,
                vl \in 0 .. MaxUint64, vh \in HiWords}
         \cup
         {<<[op |-> o, u |-> Uint128(ul, uh), v |-> Uint128(0, 0),
             n |-> n]>> :
                o \in BitOps, ul \in 0 .. MaxUint64, uh \in 0 .. MaxUint64,
                n \in 0 .. MaxUint64}
    /\ ures = << >>
    /\ IdlePerm /\ IdleZipf /\ IdleShuffle

CallNewPermutation ==
    /\ pargs # << >>
    /\ perm.status = "none"
    /\ LET a == pargs[1]
           r == NewPermutation(a.max, a.seed, a.src)
       IN  /\ perm' = [status |-> IF r.panic THEN "panic"
                                  ELSE IF r.err # "" THEN "error" ELSE "ok",
                       err |-> r.err, p |-> r.p]
           /\ fresh' = (~r.panic /\ r.err = "")
    /\ UNCHANGED <<pargs, plast, outs, zvars, uvars, svars>>

CallNext ==
    /\ perm.status = "ok"
    /\ LET p == perm.p[1]
           r == PNext(p)
           keep == fresh /\ Len(outs) <= p.max
       IN  /\ perm' = [perm EXCEPT !.p = <<r.p>>]
           /\ plast' = [op |-> "Next", n |-> 0, ret |-> r.ret,
                        from |-> p.counter,
                        after |-> IF plast.op = "Nth" THEN <<plast.n>> ELSE << >>]
           /\ fresh' = keep
           /\ outs' = IF keep THEN Append(outs, r.ret) ELSE << >>
    /\ UNCHANGED <<pargs, zvars, uvars, svars>>

CallNth ==
    /\ perm.status = "ok"
    /\ \E n \in MinInt64 .. MaxInt64 :
         LET p == perm.p[1]
             r == PNth(p, n)
         IN  /\ perm' = [perm EXCEPT !.p = <<r.p>>]
             /\ plast' = [op |-> "Nth", n |-> n, ret |-> r.ret,
                          from |-> p.counter, after |-> << >>]
    /\ fresh' = FALSE
    /\ outs' = << >>
    /\ UNCHANGED <<pargs, zvars, uvars, svars>>

CallNewZipf ==
    /\ zargs # << >>
    /\ zipf.status = "none"
    /\ LET a == zargs[1]
           r == NewZipf(a.q, a.v, a.max, a.seed, a.src)
       IN  zipf' = [status |-> IF r.err # "" THEN "error" ELSE "ok",
                    err |-> r.err, p |-> r.z]
    /\ UNCHANGED <<zargs, zlast, pvars, uvars, svars>>

CallZipfNth ==
    /\ zipf.status = "ok"
    /\ \E index \in Indexes :
         LET z == zipf.p[1]
             r == ZNth(z, index)
         IN  /\ zipf' = [zipf EXCEPT !.p = <<r.z>>]
             /\ zlast' = [op |-> "Nth", n |-> index, ret |-> r.ret,
                          from |-> z.idx, after |-> << >>]
    /\ UNCHANGED <<zargs, pvars, uvars, svars>>

CallZipfNext ==
    /\ zipf.status = "ok"
    /\ LET z == zipf.p[1]
           r == ZNext(z)
       IN  /\ zipf' = [zipf EXCEPT !.p = <<r.z>>]
           /\ zlast' = [op |-> "Next", n |-> 0, ret |-> r.ret,
                        from |-> z.idx, after |-> << >>]
    /\ UNCHANGED <<zargs, pvars, uvars, svars>>

InitShuffle ==
    /\ sargs \in {<<[decks |-> d, seed |-> sd]>> :
                    d \in -1 .. DeckLimit + 1, sd \in 0 .. NumSeeds - 1}
    /\ shuf = noObject
    /\ slast = noOp
    /\ cards = << >>
    /\ IdlePerm /\ IdleZipf /\ IdleU128

CallNewShuffle ==
    /\ sargs # << >>
    /\ shuf.status = "none"
    /\ LET r == NewShuffle(sargs[1].decks, sargs[1].seed)
       IN  shuf' = [status |-> IF r.err # "" THEN "error" ELSE "ok",
                    err |-> r.err, p |-> r.s]
    /\ UNCHANGED <<sargs, slast, cards, pvars, zvars, uvars>>

CallDeal ==
    /\ shuf.status = "ok"
    /\ \E n \in 0 .. DeckSize + 1 :
         LET r == Deal(shuf.p[1], n)
         IN  /\ shuf' = [shuf EXCEPT !.p = <<r.s>>, !.err = r.err]
             /\ slast' = [op |-> "Deal", n |-> n, ret |-> Len(r.c),
                          from |-> shuf.p[1].dealt, after |-> r.c]
             /\ cards' = cards \o r.c
    /\ UNCHANGED <<sargs, pvars, zvars, uvars>>

\* the call of operation op, whose result is r
CallU128(op, r) ==
    /\ uargs # << >>
    /\ uargs[1].op = op
    /\ ures = << >>
    /\ ures' = <<r>>
    /\ UNCHANGED <<uargs, pvars, zvars, svars>>

CallSub == CallU128("Sub", Sub(uargs[1].u, uargs[1].v))

CallMask == CallU128("Mask", Mask(uargs[1].u, uargs[1].n))

CallRotateRight == CallU128("RotateRight", RotateRight(uargs[1].u, uargs[1].n))

CallRotateLeft == CallU128("RotateLeft", RotateLeft(uargs[1].u, uargs[1].n))

CallShiftRight == CallU128("ShiftRight", ShiftRight(uargs[1].u, uargs[1].n))

CallShiftLeft == CallU128("ShiftLeft", ShiftLeft(uargs[1].u, uargs[1].n))

Init == InitPerm \/ InitZipf \/ InitU128 \/ InitShuffle

Next ==
    \/ CallNewPermutation
    \/ CallNext
    \/ CallNth
    \/ CallNewZipf
    \/ CallZipfNth
    \/ CallZipfNext
    \/ CallSub
    \/ CallMask
    \/ CallRotateRight
    \/ CallRotateLeft
    \/ CallShiftRight
    \/ CallShiftLeft
    \/ CallNewShuffle
    \/ CallDeal

Spec == Init /\ [][Next]_vars

----------------------------------------------------------------------------
(* Reference values used by the properties *)

\* the permutation built from the arguments of this run, untouched
FreshP == NewPermutation(pargs[1].max, pargs[1].seed, pargs[1].src).p[1]

\* the Zipf built from the arguments of this run, untouched
FreshZ ==
    NewZipf(zargs[1].q, zargs[1].v, zargs[1].max, zargs[1].seed,
            zargs[1].src).z[1]

\* a Uint128 as a number, and back
Value(u) == u.Hi * WordMod + u.Lo
Word128(a) == Uint128(a % WordMod, (a \div WordMod) % WordMod)

\* pi(m): the rounds of nextValue applied to the input m
Pi(p, m) == Rounds(p, LoopStart(p, m)).x

Min(a, b) == IF a < b THEN a ELSE b

\* n reduced to [0, max)
Modulo(n, max) == ((n % max) + max) % max

----------------------------------------------------------------------------
(* Properties *)

\* C1: on a freshly constructed Permutation the first max calls of Next()
\* return values in [0, max) without a duplicate, and after exactly max
\* calls every value of [0, max) has been returned.
PermutationBijective ==
    (perm.status = "ok" /\ fresh) =>
        LET max == perm.p[1].max
            n == Min(Len(outs), max)
        IN  /\ \A i \in 1 .. n : 0 <= outs[i] /\ outs[i] < max
            /\ \A i, j \in 1 .. n : i # j => outs[i] # outs[j]
            /\ n = max => {outs[i] : i \in 1 .. n} = 0 .. max - 1

\* a full cycle of a period whose rounds span more than one block, and
\* which is not the identity
PermutationBijectiveWitness ==
    /\ perm.status = "ok" /\ fresh
    /\ perm.p[1].max = MaxInt64
    /\ perm.p[1].rounds > BlockBits
    /\ Len(outs) = perm.p[1].max
    /\ \E i \in 1 .. Len(outs) : outs[i] # i - 1

\* C2: the (N+1)-th value Next() returns on an instance advanced only by
\* Next() is the value Nth(N) returns on a fresh instance built from the
\* same arguments, for every N < max.
SeekEqualsIterate ==
    (perm.status = "ok" /\ fresh) =>
        \A i \in 1 .. Min(Len(outs), perm.p[1].max) :
            outs[i] = PNth(FreshP, i - 1).ret

SeekEqualsIterateWitness ==
    /\ perm.status = "ok" /\ fresh
    /\ perm.p[1].max >= 3
    /\ Len(outs) = perm.p[1].max
    /\ outs[Len(outs)] = PNth(FreshP, perm.p[1].max - 1).ret
    /\ outs[Len(outs)] # outs[1]

\* C4: Nth(n) returns pi(m) and leaves counter = m + 1 for
\* m = ((n mod max) + max) mod max, for every signed n; Nth(-1) equals
\* Nth(max - 1); a Next() right after Nth(x) returns what Nth(x + 1) returns.
NthSeeks ==
    perm.status = "ok" =>
        /\ plast.op = "Nth" =>
            /\ plast.ret = Pi(FreshP, Modulo(plast.n, perm.p[1].max))
            /\ perm.p[1].counter = Modulo(plast.n, perm.p[1].max) + 1
        /\ PNth(perm.p[1], -1).ret = PNth(perm.p[1], perm.p[1].max - 1).ret
        /\ (plast.op = "Next" /\ plast.after # << >>) =>
            (plast.after[1] < MaxInt64 =>
                plast.ret = PNth(FreshP, plast.after[1] + 1).ret)

\* a seek more than one period before the start
NthSeeksWitness ==
    /\ perm.status = "ok"
    /\ plast.op = "Nth"
    /\ plast.n < 0 - perm.p[1].max
    /\ perm.p[1].max >= 3
    /\ Modulo(plast.n, perm.p[1].max) # 0

\* C5: NewPermutation returns (nil, "period must be positive") exactly when
\* max < 1, and a Permutation with a nil error for every max >= 1 and a
\* usable sequence.
PeriodValidated ==
    perm.status # "none" =>
        LET a == pargs[1]
        IN  /\ (a.max < 1) <=> (/\ perm.status = "error"
                                /\ perm.p = nil
                                /\ perm.err = "period must be positive")
            /\ (a.max >= 1 /\ a.src # nil) =>
                  (perm.status = "ok" /\ perm.p # nil /\ perm.err = "")
            /\ perm.status # "panic" => ((perm.p = nil) <=> (perm.err # ""))

PeriodValidatedWitness ==
    /\ perm.status = "error"
    /\ pargs[1].max = 0
    /\ pargs[1].src # nil

\* C3: for a Permutation and for a Zipf, Nth(N) after any earlier calls
\* returns what Nth(N) returns on a fresh instance built from the same
\* arguments.
SeekIsPure ==
    /\ (perm.status = "ok" /\ plast.op = "Nth") =>
            plast.ret = PNth(FreshP, plast.n).ret
    /\ (zipf.status = "ok" /\ zlast.op = "Nth") =>
            zlast.ret = ZNth(FreshZ, zlast.n).ret

\* a seek on a Permutation whose counter and cached block were left by
\* earlier calls
SeekIsPureWitness ==
    /\ perm.status = "ok"
    /\ plast.op = "Nth"
    /\ plast.from > 1
    /\ plast.n # plast.from
    /\ Modulo(plast.n, perm.p[1].max) # plast.ret

\* C6: construction with a nil sequence returns an error and no object, for
\* NewPermutation and NewZipf alike; it never panics and never returns an
\* object without a sequence.
NilSequenceRejected ==
    /\ (perm.status # "none" /\ pargs[1].src = nil) =>
            (perm.status = "error" /\ perm.p = nil)
    /\ (zipf.status # "none" /\ zargs[1].src = nil) =>
            (zipf.status = "error" /\ zipf.p = nil)
    /\ perm.status # "panic"
    /\ perm.p # nil => perm.p[1].src # nil
    /\ zipf.p # nil => zipf.p[1].src # nil

\* C7: NewZipf returns an error and no Zipf when q or v is NaN, q <= 1 or
\* v < 1, and every Zipf it returns has q > 1, v >= 1 and max >= 1.
ZipfValidated ==
    zipf.status # "none" =>
        LET a == zargs[1]
        IN  /\ (IsNaN(a.q) \/ IsNaN(a.v) \/ FLe(a.q, Float64(1))
                    \/ FLt(a.v, Float64(1))) =>
                  (zipf.status = "error" /\ zipf.p = nil)
            /\ zipf.status = "ok" =>
                  /\ FLt(Float64(1), zipf.p[1].q)
                  /\ FLe(Float64(1), zipf.p[1].v)
                  /\ FLe(Float64(1), zipf.p[1].max)

\* C8: on a Zipf with max >= 1 every call returns a value k with
\* 0 <= k < max.
ZipfInRange ==
    (zipf.status = "ok" /\ zlast.op # "none"
        /\ FLe(Float64(1), zipf.p[1].max)) =>
        (0 <= zlast.ret /\ FLt(Float64(zlast.ret), zipf.p[1].max))

\* C9 (as stated): Next() returns Nth(idx + 1) and leaves idx one larger
\* than it was, never smaller.
NextNeverWraps ==
    (zipf.status = "ok" /\ zlast.op = "Next") =>
        /\ zipf.p[1].idx = zlast.from + 1
        /\ zlast.ret = ZNth(FreshZ, zlast.from + 1).ret

\* C9: idx is 0 on a fresh Zipf and N after Nth(N); Next() returns
\* Nth((idx + 1) mod 2^64) and sets idx to (idx + 1) mod 2^64, so that it
\* advances by one except at the largest uint64, where it wraps to 0.
NextAdvancesIndex ==
    zipf.status = "ok" =>
        /\ zlast.op = "none" => zipf.p[1].idx = 0
        /\ zlast.op = "Nth" => zipf.p[1].idx = zlast.n
        /\ zlast.op = "Next" =>
            /\ zipf.p[1].idx = (zlast.from + 1) % WordMod
            /\ zlast.ret = ZNth(FreshZ, (zlast.from + 1) % WordMod).ret
            /\ zlast.from < MaxUint64 => zipf.p[1].idx = zlast.from + 1
            /\ zlast.from = MaxUint64 => zipf.p[1].idx = 0

\* Next() at the largest index
NextAdvancesIndexWitness ==
    /\ zipf.status = "ok"
    /\ zlast.op = "Next"
    /\ zlast.from = MaxUint64
    /\ zipf.p[1].idx = 0

\* C10: u.Sub(v) leaves u equal to (u - v) mod 2^128.
SubWraps ==
    (ures # << >> /\ uargs[1].op = "Sub") =>
        ures[1] = Word128(Value(uargs[1].u) - Value(uargs[1].v))

\* the result of the Uint128 operation op, if it was called
Did(op) == ures # << >> /\ uargs[1].op = op

\* the reference operations on the number a Uint128 stands for
BlockMod == WordMod * WordMod
LowBits(a, n) == IF n >= BlockBits THEN a ELSE a % Pow2(n)
ShlRef(a, n) == IF n >= BlockBits THEN 0 ELSE (a * Pow2(n)) % BlockMod
ShrRef(a, n) == IF n >= BlockBits THEN 0 ELSE a \div Pow2(n)
RotlRef(a, n) ==
    LET r == n % BlockBits
    IN  ((a * Pow2(r)) % BlockMod) + (a \div Pow2(BlockBits - r))
RotrRef(a, n) == RotlRef(a, BlockBits - (n % BlockBits))

\* C11: u.Mask(n) clears every bit of u at position >= n and keeps every bit
\* below n; for n >= 128 u is unchanged.
MaskClears ==
    Did("Mask") =>
        ures[1] = Word128(LowBits(Value(uargs[1].u), uargs[1].n))

CounterBounded ==
    perm.status = "ok" =>
        /\ 0 <= perm.p[1].counter
        /\ perm.p[1].counter <= perm.p[1].max
        /\ (plast.op = "Next" /\ plast.from = perm.p[1].max) =>
              /\ plast.ret = Pi(FreshP, 0)
              /\ perm.p[1].counter = 1

\* a Next() at the end of the largest period
CounterBoundedWitness ==
    /\ perm.status = "ok"
    /\ plast.op = "Next"
    /\ perm.p[1].max = MaxInt64
    /\ plast.from = perm.p[1].max
    /\ perm.p[1].counter = 1

\* the swap decision of round r at the pair whose larger member is xCaret:
\* bit r mod 128 of the block at offset_for(PermutationF, permSeed, r / 128,
\* xCaret)
Decision(p, r, xCaret) ==
    Bit(BitsAt(p.src, OffsetFor(SequencePermutationF, p.permSeed,
                                r \div BlockBits, xCaret)),
        r % BlockBits)

\* round r applied to x with that decision
DecidedRound(p, r, x) ==
    LET xPrime == (p.k[r] + p.max - x) % p.max
    IN  IF Decision(p, r, Caret(x, xPrime)) # 0 THEN xPrime ELSE x

\* rounds 0 .. p.rounds - 1 applied to m, each with that decision
DecidedPi(p, m) ==
    LET run[a \in [x : Nat, r : Nat, n : Nat]] ==
            IF a.n = 0 THEN a.x
            ELSE IF a.n = 1 THEN DecidedRound(p, a.r, a.x)
            ELSE run[[x |-> run[[x |-> a.x, r |-> a.r, n |-> a.n \div 2]],
                      r |-> a.r + (a.n \div 2), n |-> a.n - (a.n \div 2)]]
    IN  run[[x |-> m, r |-> 0, n |-> p.rounds]]

\* C14: in every round r the swap decision is bit r mod 128 of the block at
\* offset_for(PermutationF, permSeed, r / 128, xCaret), also in rounds 128
\* and above: every value returned is the result of the rounds so decided.
DecisionBitPerRound ==
    (perm.status = "ok" /\ plast.op # "none") =>
        plast.ret = DecidedPi(FreshP, perm.p[1].counter - 1)

IsPow2(x) == x = Pow2(CeilLog2(x))

KeyWord(a, j, i) ==
    BitsAt(a.src, OffsetFor(SequencePermutationK, a.seed, j, i)).Lo

\* key is drawn for round key i by rejection below bound: the words of
\* iterations 0, 1, ... are skipped while they are >= bound, and the first
\* one below it gives key = w mod max
DrawnBelow(a, i, bound, key) ==
    \E j \in 0 .. Pow2(IterationBits) - 1 :
        /\ \A e \in 0 .. j - 1 : KeyWord(a, e, i) >= bound
        /\ KeyWord(a, j, i) < bound
        /\ key = KeyWord(a, j, i) % a.max

\* the number of words below bound with residue r modulo max
Accepted(bound, max, r) ==
    Cardinality({w \in 0 .. MaxUint64 : w < bound /\ w % max = r})

\* C16 (as stated): a sampled word w is accepted exactly when
\* w < floor(2^64 / max) * max, otherwise the iteration is incremented; the
\* accepted word gives K[r] = w mod max.
KeysBelowExactMultiple ==
    perm.status = "ok" =>
        \A i \in DOMAIN perm.p[1].k :
            DrawnBelow(pargs[1], i, (WordMod \div pargs[1].max) * pargs[1].max,
                       perm.p[1].k[i])

\* C16: a sampled word w is accepted exactly when
\* w < floor((2^64 - 1) / max) * max, otherwise the iteration is incremented
\* and the block resampled; the accepted word gives K[r] = w mod max, every
\* K[r] is in [0, max) and every residue has the same number of accepted
\* words.
KeysByRejection ==
    perm.status = "ok" =>
        LET max == pargs[1].max
            bound == ((WordMod - 1) \div max) * max
        IN  /\ \A i \in DOMAIN perm.p[1].k :
                  /\ DrawnBelow(pargs[1], i, bound, perm.p[1].k[i])
                  /\ 0 <= perm.p[1].k[i] /\ perm.p[1].k[i] < max
            /\ \A r \in 0 .. max - 1 :
                  Accepted(bound, max, r) = Accepted(bound, max, 0)

\* a round key whose first word was rejected, for a period that does not
\* divide the number of words
KeysByRejectionWitness ==
    /\ perm.status = "ok"
    /\ plast.op = "none"
    /\ WordMod % pargs[1].max # 0
    /\ \E i \in DOMAIN perm.p[1].k :
          /\ KeyWord(pargs[1], 0, i) >= ((WordMod - 1) \div pargs[1].max) * pargs[1].max
          /\ perm.p[1].k[i] # KeyWord(pargs[1], 0, i) % pargs[1].max

\* C17: over the Deal calls of a Shuffle, which deal at most 52 * d cards
\* in total, no Card value is dealt twice.
NoCardTwice ==
    shuf.status = "ok" =>
        /\ Len(cards) <= sargs[1].decks * DeckSize
        /\ \A i, j \in 1 .. Len(cards) : i # j => cards[i] # cards[j]

====
